---- MODULE Spec2Model ----
(***************************************************************************)
(* Circular buffer of cbuffer.c / cbuffer.h (single reader, single writer). *)
(*                                                                         *)
(* The six functions of cbuffer.c have bodies without statements.  The     *)
(* model follows the source: a call leaves the descriptor, the storage and *)
(* the caller's buffer as they were, and the value of a call to one of the *)
(* four uint32_t functions is indeterminate (the closing brace is reached  *)
(* without a return statement).  A descriptor that cb_init has been called *)
(* on still holds whatever its memory held before: zeroes for a static     *)
(* object, indeterminate words for an automatic one.                       *)
(***************************************************************************)
EXTENDS Integers, Sequences, FiniteSets, TLC

\* ------------------------------------------------------------------ bounds
\* largest size handed to cb_init, and the length of the caller's array
MaxCap == 3
\* largest nbytes handed to cb_read / cb_write
BufLen == 2
\* an indeterminate uint32_t is explored as 0 or as a value up to MaxWord
MaxWord == 2
\* a write is started only while its bytes and the accepted bytes still
\* waiting number at most MaxQueue
MaxQueue == 2

\* cbuffer.h: #define CB_MAX_SIZE (0x00800000)
CB_MAX_SIZE == 8388608

\* uint8_t values: two values tell the bytes of a buffer apart
Bytes == {0, 1}
\* indices of the caller's array
Slots == 0..(MaxCap - 1)
\* what an uninitialized uint32_t field may hold: zero (static storage) or
\* a nonzero word (automatic storage)
Indet32 == {0, MaxWord}
\* what an uninitialized pointer field may hold
Pointers == {"NULL", "cb_buff"}

Min(a, b) == IF a <= b THEN a ELSE b
Take(s, n) == SubSeq(s, 1, Min(n, Len(s)))
Drop(s, n) == SubSeq(s, Min(n, Len(s)) + 1, Len(s))
Buffers == UNION {[1..n -> Bytes] : n \in 0..BufLen}

\* ------------------------------------------------------------------- state
VARIABLES
    cb,         \* the cbuffer_t descriptor: data, size, writer, reader, overflow, active
    cb_buff,    \* the caller's array handed to cb_init as storage
    init_size,  \* the size argument of the latest cb_init call, 0 before the first
    prod,       \* producer context: the cb_write call in flight, its latest result
    cons,       \* consumer context: the cb_read call in flight, its latest result
    queue       \* bytes the writes reported as accepted and the reads have not
                \* yet reported as delivered, oldest first

vars == <<cb, cb_buff, init_size, prod, cons, queue>>

\* typedef struct { data, size, writer, reader, overflow, active } cbuffer_t
cbuffer_t ==
    [data : Pointers, size : Indet32, writer : Indet32, reader : Indet32,
     overflow : Indet32, active : BOOLEAN]

Idle == [pc |-> "idle", buf |-> <<>>, nbytes |-> 0, ret |-> 0, last |-> "none"]

\* ---------------------------------------------------- the function bodies
\* Each body maps the memory it can reach to the memory it leaves.
\* m.cb is *cb, m.storage the array behind cb->data, m.buf the caller's buf.

\* cb_init as it would be if it marked the descriptor usable.
cb_init_sets_active(m, size) == [m EXCEPT !.cb.active = TRUE]

\* void cb_init(cbuffer_t *cb, void *buf, uint32_t size) { }
cb_init(m, size) == m

\* void cb_clear(cbuffer_t *cb) { }
cb_clear(m) == m

\* cb_read as it would be if it rewound both indices once it believes the
\* buffer drained: the consumer then writes the producer's index.
cb_read_rewinds(m, nbytes) ==
    [m EXCEPT !.cb.writer = 0, !.cb.reader = 0]

\* uint32_t cb_read(cbuffer_t *cb, void *buf, uint32_t nbytes) { }
cb_read(m, nbytes) == m

\* cb_write as it would be if it filled every slot up to the read index,
\* without keeping the one-slot gap.
cb_write_fills_gap(m, nbytes) ==
    [m EXCEPT !.cb.writer = IF nbytes > 0 THEN m.cb.reader ELSE @]

\* uint32_t cb_write(cbuffer_t *cb, void *buf, uint32_t nbytes) { }
cb_write(m, nbytes) == m

\* uint32_t cb_data_count(cbuffer_t *cb) { }
cb_data_count(m) == m

\* uint32_t cb_space_count(cbuffer_t *cb) { }
cb_space_count(m) == m

\* The value of a call whose body ends without a return statement.
RetVals == 0..MaxWord

Mem(buf) == [cb |-> cb, storage |-> cb_buff, buf |-> buf]

\* ------------------------------------------------------------------ actions
Init ==
    /\ cb \in cbuffer_t
    /\ cb_buff = [i \in Slots |-> 0]
    /\ init_size = 0
    /\ prod = Idle
    /\ cons = Idle
    /\ queue = <<>>

Quiesced == prod.pc = "idle" /\ cons.pc = "idle"

\* cb_init(&cb, cb_buff, size), called with no operation in flight
CbInit(size) ==
    /\ Quiesced
    /\ size >= 2 /\ size <= CB_MAX_SIZE
    /\ LET m == cb_init(Mem(<<>>), size) IN
         /\ cb' = m.cb
         /\ cb_buff' = m.storage
    /\ init_size' = size
    /\ queue' = <<>>
    /\ UNCHANGED <<prod, cons>>

\* cb_clear(&cb), called with no operation in flight
CbClear ==
    /\ Quiesced
    /\ LET m == cb_clear(Mem(<<>>)) IN
         /\ cb' = m.cb
         /\ cb_buff' = m.storage
    /\ queue' = <<>>
    /\ UNCHANGED <<init_size, prod, cons>>

\* the producer enters cb_write(&cb, src, nbytes)
WriteCall(src) ==
    /\ prod.pc = "idle"
    /\ Len(queue) + Len(src) <= MaxQueue
    /\ prod' = [pc |-> "cb_write", buf |-> src, nbytes |-> Len(src),
                ret |-> 0, last |-> "none"]
    /\ UNCHANGED <<cb, cb_buff, init_size, cons, queue>>

\* cb_write runs its body and returns r to the producer
WriteReturn(r) ==
    /\ prod.pc = "cb_write"
    /\ LET m == cb_write(Mem(prod.buf), prod.nbytes) IN
         /\ cb' = m.cb
         /\ cb_buff' = m.storage
         /\ queue' = queue \o Take(m.buf, r)
    /\ prod' = [Idle EXCEPT !.ret = r, !.last = "cb_write"]
    /\ UNCHANGED <<init_size, cons>>

\* the producer calls cb_space_count(&cb), which returns r
SpaceCount(r) ==
    /\ prod.pc = "idle"
    /\ LET m == cb_space_count(Mem(<<>>)) IN
         /\ cb' = m.cb
         /\ cb_buff' = m.storage
    /\ prod' = [Idle EXCEPT !.ret = r, !.last = "cb_space_count"]
    /\ UNCHANGED <<init_size, cons, queue>>

\* the consumer enters cb_read(&cb, dst, nbytes)
ReadCall(dst) ==
    /\ cons.pc = "idle"
    /\ cons' = [pc |-> "cb_read", buf |-> dst, nbytes |-> Len(dst),
                ret |-> 0, last |-> "none"]
    /\ UNCHANGED <<cb, cb_buff, init_size, prod, queue>>

\* cb_read runs its body and returns r to the consumer
ReadReturn(r) ==
    /\ cons.pc = "cb_read"
    /\ LET m == cb_read(Mem(cons.buf), cons.nbytes) IN
         /\ cb' = m.cb
         /\ cb_buff' = m.storage
    /\ queue' = Drop(queue, r)
    /\ cons' = [Idle EXCEPT !.ret = r, !.last = "cb_read"]
    /\ UNCHANGED <<init_size, prod>>

\* the consumer calls cb_data_count(&cb), which returns r
DataCount(r) ==
    /\ cons.pc = "idle"
    /\ LET m == cb_data_count(Mem(<<>>)) IN
         /\ cb' = m.cb
         /\ cb_buff' = m.storage
    /\ cons' = [Idle EXCEPT !.ret = r, !.last = "cb_data_count"]
    /\ UNCHANGED <<init_size, prod, queue>>

Next ==
    \/ \E size \in 2..MaxCap : CbInit(size)
    \/ CbClear
    \/ \E src \in Buffers : WriteCall(src)
    \/ \E r \in RetVals : WriteReturn(r)
    \/ \E r \in RetVals : SpaceCount(r)
    \/ \E dst \in Buffers : ReadCall(dst)
    \/ \E r \in RetVals : ReadReturn(r)
    \/ \E r \in RetVals : DataCount(r)

Spec == Init /\ [][Next]_vars

\* ------------------------------------------------- vocabulary of the claims
\* cb_init has been called; the capacity meant is the size it was given
Inited == init_size > 0

\* an active buffer: cb_init has been called and the descriptor holds what
\* the claims take an initialized descriptor to hold (the flag set, the
\* storage and size bound, both indices inside the storage)
Active ==
    /\ Inited
    /\ cb.active /\ cb.data = "cb_buff" /\ cb.size = init_size
    /\ cb.writer < init_size /\ cb.reader < init_size

\* (write_index - read_index) mod capacity, of descriptor c
DataAvailOf(c, size) == (c.writer - c.reader) % size
DataAvail == DataAvailOf(cb, init_size)
\* capacity - 1 - data available
SpaceAvail == init_size - 1 - DataAvail

\* the slot k places after index i
SlotAt(i, k) == (i + k) % init_size
\* the slots from read_index up to, excluding, write_index
Unread(i) == \E k \in 0..(DataAvail - 1) : i = SlotAt(cb.reader, k)

\* steps of the two contexts
WriteReturns == prod.pc = "cb_write" /\ prod'.pc = "idle"
ReadReturns == cons.pc = "cb_read" /\ cons'.pc = "idle"
SpaceCountReturns ==
    /\ prod.pc = "idle" /\ prod'.pc = "idle"
    /\ prod' # prod /\ prod'.last = "cb_space_count"
DataCountReturns ==
    /\ cons.pc = "idle" /\ cons'.pc = "idle"
    /\ cons' # cons /\ cons'.last = "cb_data_count"

\* the caller's buffer as the call in flight leaves it
WriteBuf == cb_write(Mem(prod.buf), prod.nbytes).buf
ReadBuf == cb_read(Mem(cons.buf), cons.nbytes).buf

\* ------------------------------------------------------------------- claims

\* C1: with one producer calling cb_write and one consumer calling cb_read,
\* in every interleaving the bytes the reads deliver are a prefix of the
\* bytes the writes accepted: a read delivers no more bytes than are waiting,
\* and the bytes it delivers are the oldest waiting ones, in order.
C1_ReadsDeliverWhatWritesAccepted ==
    [][(Inited /\ ReadReturns) =>
          /\ cons'.ret <= Len(queue)
          /\ \A k \in 1..Min(cons'.ret, Len(ReadBuf)) :
                k <= Len(queue) /\ ReadBuf[k] = queue[k]]_vars

\* C2: in every reachable state every slot from read_index up to, excluding,
\* the visible write_index holds the byte the producer stored for it: the
\* k-th such slot holds the k-th byte accepted and not yet delivered.
C2_VisibleSlotsHoldStoredBytes ==
    Inited =>
        \A k \in 1..DataAvail :
            /\ k <= Len(queue)
            /\ cb_buff[SlotAt(cb.reader, k - 1)] = queue[k]

\* C3: cb_read moves read_index forward by the number of bytes it returns, as
\* the step that ends the call, and no step stores into a slot between
\* read_index and write_index (unread data is never overwritten).
C3_ReadIndexLastNoOverwrite ==
    [][Inited =>
          /\ ReadReturns => cb'.reader = SlotAt(cb.reader, cons'.ret)
          /\ \A i \in Slots : cb_buff'[i] # cb_buff[i] => ~Unread(i)]_vars

C5_RoundTrip ==
    [][Active =>
          /\ (WriteReturns /\ prod.nbytes <= SpaceAvail) =>
                prod'.ret = prod.nbytes
          /\ (ReadReturns /\ cons.nbytes >= 1 /\ Len(queue) >= 1) =>
                /\ cons'.ret >= 1
                /\ cons'.ret <= Min(cons.nbytes, Len(queue))
                /\ \A k \in 1..Min(cons'.ret, Len(ReadBuf)) :
                      k <= Len(queue) => ReadBuf[k] = queue[k]]_vars

\* C6: overflow accounting on an active buffer: a cb_write of nbytes with
\* free space S < nbytes returns S and adds nbytes - S to overflow_count; a
\* cb_write with nbytes <= S leaves overflow_count unchanged.
C6_OverflowAccounting ==
    [][(Active /\ WriteReturns) =>
          /\ prod.nbytes > SpaceAvail =>
                /\ prod'.ret = SpaceAvail
                /\ cb'.overflow = cb.overflow + (prod.nbytes - SpaceAvail)
          /\ prod.nbytes <= SpaceAvail =>
                cb'.overflow = cb.overflow]_vars

\* C7: on an active buffer cb_write stores the first min(nbytes, space)
\* bytes of the source, in order, from write_index on and continuing at
\* index 0 after the last slot; every other slot, the queued bytes among
\* them, stays as it was.
C7_WriteStoresPrefixWrapping ==
    [][(Active /\ WriteReturns) =>
          LET n == Min(prod.nbytes, SpaceAvail) IN
          /\ \A k \in 0..(n - 1) :
                cb_buff'[SlotAt(cb.writer, k)] = prod.buf[k + 1]
          /\ \A i \in Slots :
                (\A k \in 0..(n - 1) : i # SlotAt(cb.writer, k)) =>
                    cb_buff'[i] = cb_buff[i]]_vars

\* C8: on an active buffer cb_read returns exactly min(nbytes, data
\* available), delivers that many of the oldest unread bytes in order, and
\* moves read_index forward by the count returned; asking for more than is
\* available leaves no data, and a read on an empty buffer returns 0 and
\* changes nothing.
C8_ReadReturnsMinAndAdvances ==
    [][(Active /\ ReadReturns) =>
          /\ cons'.ret = Min(cons.nbytes, DataAvail)
          /\ \A k \in 0..(Min(cons'.ret, Len(ReadBuf)) - 1) :
                ReadBuf[k + 1] = cb_buff[SlotAt(cb.reader, k)]
          /\ cb'.reader = SlotAt(cb.reader, cons'.ret)
          /\ cons.nbytes > DataAvail => DataAvailOf(cb', init_size') = 0
          /\ DataAvail = 0 =>
                cons'.ret = 0 /\ cb' = cb /\ cb_buff' = cb_buff]_vars

\* C9: single writer per index: a cb_write step never changes read_index, a
\* cb_read step never changes write_index or overflow_count, a cb_data_count
\* or cb_space_count step changes no field of the descriptor and no byte of
\* storage; write_index changes in no consumer step and read_index in no
\* producer step.
C9_SingleWriterPerIndex ==
    [][/\ (prod.pc = "cb_write" \/ prod'.pc = "cb_write") /\ prod' # prod =>
             cb'.reader = cb.reader
       /\ (cons.pc = "cb_read" \/ cons'.pc = "cb_read") /\ cons' # cons =>
             cb'.writer = cb.writer /\ cb'.overflow = cb.overflow
       /\ (SpaceCountReturns \/ DataCountReturns) =>
             cb' = cb /\ cb_buff' = cb_buff
       /\ cons' # cons => cb'.writer = cb.writer
       /\ prod' # prod => cb'.reader = cb.reader]_vars

\* C9 witness: on an initialized buffer a cb_write and a cb_read have both
\* returned, each reporting bytes moved.
C9_Witness ==
    /\ Inited
    /\ prod.last = "cb_write" /\ prod.ret > 0
    /\ cons.last = "cb_read" /\ cons.ret > 0

\* C10: count queries never over-count: cb_data_count called by the consumer
\* while a cb_write is in flight returns no more than the bytes stored and
\* unread when it returns, cb_space_count called by the producer while a
\* cb_read is in flight returns no more than the slots free when it returns,
\* and each value was exact at some instant of the call.
C10_CountsNeverOverCount ==
    [][Inited =>
          /\ (DataCountReturns /\ prod.pc = "cb_write") =>
                /\ cons'.ret <= DataAvailOf(cb', init_size')
                /\ cons'.ret \in {DataAvail, DataAvailOf(cb', init_size')}
          /\ (SpaceCountReturns /\ cons.pc = "cb_read") =>
                /\ prod'.ret <= init_size' - 1 - DataAvailOf(cb', init_size')
                /\ prod'.ret \in {SpaceAvail,
                                  init_size' - 1 - DataAvailOf(cb', init_size')}]_vars

\* steps that are a call of cb_init
CbInitStep == \E size \in 2..MaxCap : CbInit(size)

\* C11: with no operation of the other context in flight, cb_data_count
\* returns (write_index - read_index) mod capacity and cb_space_count
\* returns capacity - 1 minus that, so the two add up to capacity - 1 (a
\* buffer just initialized with size S reports 0 and S - 1).
C11_CountsAddUpAtQuiescence ==
    [][Active =>
          /\ (DataCountReturns /\ prod.pc = "idle") =>
                /\ cons'.ret = DataAvail
                /\ cons'.ret + SpaceAvail = init_size - 1
          /\ (SpaceCountReturns /\ cons.pc = "idle") =>
                /\ prod'.ret = init_size - 1 - DataAvail
                /\ prod'.ret + DataAvail = init_size - 1]_vars

\* C12: cb_init with a size in [2, CB_MAX_SIZE], on a descriptor in any
\* prior state, leaves write_index = read_index = overflow_count = 0,
\* active = true, and the descriptor bound to the given storage and size.
C12_InitBindsAndZeroes ==
    [][CbInitStep =>
          cb' = [data |-> "cb_buff", size |-> init_size', writer |-> 0,
                 reader |-> 0, overflow |-> 0, active |-> TRUE]]_vars

\* the memory a cb_clear call made in this state leaves
Cleared == cb_clear(Mem(<<>>))

\* C13: cb_clear on a quiesced buffer sets write_index, read_index and
\* overflow_count to 0 and leaves the active flag, the size, the storage
\* binding and every byte of storage unchanged; afterwards the data count,
\* (write_index - read_index) mod capacity, is 0.
C13_ClearZeroesIndicesOnly ==
    (Inited /\ Quiesced) =>
        /\ Cleared.cb.writer = 0 /\ Cleared.cb.reader = 0
        /\ Cleared.cb.overflow = 0
        /\ Cleared.cb.active = cb.active /\ Cleared.cb.size = cb.size
        /\ Cleared.cb.data = cb.data /\ Cleared.storage = cb_buff
        /\ DataAvailOf(Cleared.cb, init_size) = 0

\* C14: cb_clear is idempotent: from any reachable quiesced state, calling
\* cb_clear twice in a row leaves the descriptor as calling it once does,
\* with a data count of 0 and overflow_count = 0.
C14_ClearIdempotent ==
    (Inited /\ Quiesced) =>
        /\ cb_clear(Cleared) = Cleared
        /\ DataAvailOf(cb_clear(Cleared).cb, init_size) = 0
        /\ cb_clear(Cleared).cb.overflow = 0

\* C15: on a descriptor whose active flag is false every operation is a
\* no-op: cb_write, cb_read, cb_data_count and cb_space_count return 0 and
\* change neither the descriptor, nor the storage, nor the caller's buffer;
\* the same holds for cb_write and cb_read with nbytes = 0 on an active
\* buffer.
C15_NotActiveIsNoOp ==
    [][/\ (WriteReturns /\ (~cb.active \/ (Active /\ prod.nbytes = 0))) =>
             /\ prod'.ret = 0
             /\ cb' = cb /\ cb_buff' = cb_buff /\ WriteBuf = prod.buf
       /\ (ReadReturns /\ (~cb.active \/ (Active /\ cons.nbytes = 0))) =>
             /\ cons'.ret = 0
             /\ cb' = cb /\ cb_buff' = cb_buff /\ ReadBuf = cons.buf
       /\ (SpaceCountReturns /\ ~cb.active) =>
             prod'.ret = 0 /\ cb' = cb /\ cb_buff' = cb_buff
       /\ (DataCountReturns /\ ~cb.active) =>
             cons'.ret = 0 /\ cb' = cb /\ cb_buff' = cb_buff]_vars

\* C16: cb_read and cb_write are non-blocking: a call in flight can always
\* return with its next step, whatever the other context is doing, and a
\* write on a full buffer and a read on an empty buffer can return only 0.
C16_NonBlockingReturns ==
    /\ prod.pc = "cb_write" => ENABLED (\E r \in RetVals : WriteReturn(r))
    /\ cons.pc = "cb_read" => ENABLED (\E r \in RetVals : ReadReturn(r))
    /\ (Inited /\ cb.active /\ prod.pc = "cb_write" /\ SpaceAvail = 0) =>
          \A r \in RetVals : (ENABLED WriteReturn(r)) => r = 0
    /\ (Inited /\ cb.active /\ cons.pc = "cb_read" /\ DataAvail = 0) =>
          \A r \in RetVals : (ENABLED ReadReturn(r)) => r = 0

\* C17: in every reachable state of an initialized buffer, states in the
\* middle of a read or a write included, 0 <= write_index < capacity and
\* 0 <= read_index < capacity.
C17_IndicesInRange ==
    Inited =>
        /\ 0 <= cb.writer /\ cb.writer < init_size
        /\ 0 <= cb.reader /\ cb.reader < init_size

\* C18: conservation of bytes on an active buffer: a cb_write adds the value
\* it returns to the data count and nbytes minus that value to
\* overflow_count, a cb_read takes the value it returns off the data count
\* and leaves overflow_count, and cb_init starts both at 0; so at every
\* quiescent point the data count is the sum of the values returned by
\* cb_write minus the sum of those returned by cb_read, and overflow_count
\* the sum of the bytes the writes did not take.
C18_ConservationOfBytes ==
    [][/\ (Active /\ WriteReturns) =>
             /\ DataAvailOf(cb', init_size') = DataAvail + prod'.ret
             /\ cb'.overflow = cb.overflow + (prod.nbytes - prod'.ret)
       /\ (Active /\ ReadReturns) =>
             /\ DataAvailOf(cb', init_size') = DataAvail - cons'.ret
             /\ cb'.overflow = cb.overflow
       /\ CbInitStep =>
             DataAvailOf(cb', init_size') = 0 /\ cb'.overflow = 0]_vars

\* C19: in the source as written no call assigns data, size, writer, reader,
\* overflow or active, nor any byte of the storage or of the caller's
\* buffer: every step leaves the descriptor and the storage as they were,
\* and a cb_write or cb_read in flight leaves the caller's buffer as it was.
C19_NoCallAssignsAnything ==
    [][/\ cb' = cb
       /\ cb_buff' = cb_buff
       /\ WriteReturns => WriteBuf = prod.buf
       /\ ReadReturns => ReadBuf = cons.buf]_vars

\* C19 witness: cb_init has been called and active is still false, and a
\* cb_write that reported bytes written has returned with the storage still
\* holding none of them, after a cb_read returned as well.
C19_Witness ==
    /\ Inited /\ ~cb.active
    /\ prod.last = "cb_write" /\ prod.ret > 0
    /\ cons.last = "cb_read"
    /\ \E k \in 1..Len(queue) : queue[k] = 1
    /\ \A i \in Slots : cb_buff[i] = 0

====
